---- MODULE Spec2Model ----
(***************************************************************************)
(* A model of ics/parse.py: the content-line grammar (ContentLine.parse),  *)
(* rendering (ContentLine.__str__, Container.__str__), record equality,    *)
(* line unfolding (unfold_lines) and BEGIN/END nesting (Container.parse,   *)
(* parse).  Strings are sequences of one-character strings.                *)
(***************************************************************************)
EXTENDS Integers, Sequences, FiniteSets, TLC

VARIABLES pc, rec, other, eq, line, parsed, container, txt,
          physical_lines, unfolded, reunfolded, tokenized_lines, tree

vars == <<pc, rec, other, eq, line, parsed, container, txt,
          physical_lines, unfolded, reunfolded, tokenized_lines, tree>>

(***************************************************************************)
(* Bounds of the model.                                                    *)
(***************************************************************************)
MaxPieces == 4
MaxParams == 2
MaxLines == 3
MaxRecords == 5
MaxDepth == 2

(***************************************************************************)
(* Characters.                                                             *)
(***************************************************************************)
\* pyparsing.printables: the printable ASCII characters that are not whitespace
\* (without the backquote, which a TLA+ string cannot hold)
Printables ==
    { "0", "1", "2", "3", "4", "5", "6", "7", "8", "9",
      "a", "b", "c", "d", "e", "f", "g", "h", "i", "j", "k", "l", "m",
      "n", "o", "p", "q", "r", "s", "t", "u", "v", "w", "x", "y", "z",
      "A", "B", "C", "D", "E", "F", "G", "H", "I", "J", "K", "L", "M",
      "N", "O", "P", "Q", "R", "S", "T", "U", "V", "W", "X", "Y", "Z",
      "!", "\"", "#", "$", "%", "&", "'", "(", ")", "*", "+", ",", "-",
      ".", "/", ":", ";", "<", "=", ">", "?", "@", "[", "\\", "]", "^",
      "_", "{", "|", "}", "~" }

\* the characters pyparsing skips before every token, and the set of rstrip(' \n\t\r')
Whitespace == { " ", "\n", "\t", "\r" }

\* excludeChars of wordBNF
ExcludeChars == { "=", ";", ":", ",", "\"" }

\* pp.Word(pp.printables + ' \n\t\r', excludeChars='=;:,"')
WordChars == (Printables \cup Whitespace) \ ExcludeChars

LowerCase == << "a", "b", "c", "d", "e", "f", "g", "h", "i", "j", "k", "l", "m",
                "n", "o", "p", "q", "r", "s", "t", "u", "v", "w", "x", "y", "z" >>

UpperCase == << "A", "B", "C", "D", "E", "F", "G", "H", "I", "J", "K", "L", "M",
                "N", "O", "P", "Q", "R", "S", "T", "U", "V", "W", "X", "Y", "Z" >>

\* str.upper() on one character
UpperChar(c) ==
    IF \E i \in 1..Len(LowerCase) : LowerCase[i] = c
    THEN UpperCase[CHOOSE i \in 1..Len(LowerCase) : LowerCase[i] = c]
    ELSE c

\* str.upper()
Upper(s) == [i \in 1..Len(s) |-> UpperChar(s[i])]

\* the tab stop of str.expandtabs(), which parseString applies to its input
TabSize == 8

Spaces(n) == [i \in 1..n |-> " "]

RECURSIVE ExpandFrom(_, _, _)
ExpandFrom(s, i, col) ==
    IF i > Len(s) THEN << >>
    ELSE IF s[i] = "\t"
         THEN LET incr == TabSize - (col % TabSize)
              IN  Spaces(incr) \o ExpandFrom(s, i + 1, col + incr)
         ELSE IF s[i] \in { "\n", "\r" }
              THEN << s[i] >> \o ExpandFrom(s, i + 1, 0)
              ELSE << s[i] >> \o ExpandFrom(s, i + 1, col + 1)

\* parseString(line): instring = instring.expandtabs()
ExpandTabs(s) == ExpandFrom(s, 1, 0)

RECURSIVE RStripChars(_, _)
\* s.rstrip(chars)
RStripChars(s, chars) ==
    IF Len(s) > 0 /\ s[Len(s)] \in chars
    THEN RStripChars(SubSeq(s, 1, Len(s) - 1), chars)
    ELSE s

RECURSIVE LStripChars(_, _)
\* s.lstrip(chars)
LStripChars(s, chars) ==
    IF Len(s) > 0 /\ s[1] \in chars
    THEN LStripChars(SubSeq(s, 2, Len(s)), chars)
    ELSE s

\* s.strip(chars)
StripChars(s, chars) == LStripChars(RStripChars(s, chars), chars)

(***************************************************************************)
(* The content-line grammar, as pyparsing evaluates it: every token first  *)
(* skips whitespace, a repetition stops at the first failing iteration and *)
(* gives back what that iteration consumed, and nothing else backtracks.   *)
(***************************************************************************)
RECURSIVE SkipWhitespace(_, _)
\* ParserElement.preParse: the first position at or after i that is not whitespace
SkipWhitespace(s, i) ==
    IF i <= Len(s) /\ s[i] \in Whitespace THEN SkipWhitespace(s, i + 1) ELSE i

RECURSIVE WordRunEnd(_, _)
\* the first position at or after i that holds no word character
WordRunEnd(s, i) ==
    IF i <= Len(s) /\ s[i] \in WordChars THEN WordRunEnd(s, i + 1) ELSE i

Failed == [ok |-> FALSE, pos |-> 0, tok |-> << >>]

\* wordBNF at position i
ParseWord(s, i) ==
    LET j == SkipWhitespace(s, i)
        e == WordRunEnd(s, j)
    IN  IF e > j THEN [ok |-> TRUE, pos |-> e, tok |-> SubSeq(s, j, e - 1)]
        ELSE Failed

\* pp.Literal(c) at position i
ParseLiteral(s, i, c) ==
    LET j == SkipWhitespace(s, i)
    IN  IF j <= Len(s) /\ s[j] = c
        THEN [ok |-> TRUE, pos |-> j + 1, tok |-> << c >>]
        ELSE Failed

RECURSIVE QuotedEnd(_, _)
\* the closing quote of a quoted string whose body starts at i, or 0:
\* the pattern "(?:[^"\\]|(?:\\.))*" of QuotedString('"', escChar='\\')
QuotedEnd(s, i) ==
    IF i > Len(s) THEN 0
    ELSE IF s[i] = "\"" THEN i
    ELSE IF s[i] = "\\"
         THEN IF i + 1 <= Len(s) THEN QuotedEnd(s, i + 2) ELSE 0
         ELSE QuotedEnd(s, i + 1)

\* multilineQuoteBNF at position i (unquoteResults=False keeps the quotes)
ParseQuoted(s, i) ==
    LET j == SkipWhitespace(s, i)
        q == IF j <= Len(s) /\ s[j] = "\"" THEN QuotedEnd(s, j + 1) ELSE 0
    IN  IF q > 0 THEN [ok |-> TRUE, pos |-> q + 1, tok |-> SubSeq(s, j, q)]
        ELSE Failed

\* paramValueBNF == pp.Or([multilineQuoteBNF, wordBNF]): the longest match
ParseParamValue(s, i) ==
    LET q == ParseQuoted(s, i)
        w == ParseWord(s, i)
    IN  IF q.ok /\ (~w.ok \/ q.pos >= w.pos) THEN q ELSE w

RECURSIVE ParseMoreValues(_, _, _)
\* the ZeroOrMore("," paramValueBNF) of pp.delimitedList
ParseMoreValues(s, i, acc) ==
    LET comma == ParseLiteral(s, i, ",")
        pv    == ParseParamValue(s, comma.pos)
    IN  IF comma.ok /\ pv.ok
        THEN ParseMoreValues(s, pv.pos, Append(acc, pv.tok))
        ELSE [ok |-> TRUE, pos |-> i, tok |-> acc]

\* paramBNF with the "=" and the values made optional
ParseParamOptionalValue(s, i) ==
    LET pn   == ParseWord(s, i)
        eqs  == ParseLiteral(s, pn.pos, "=")
        pv   == ParseParamValue(s, eqs.pos)
    IN  IF pn.ok /\ eqs.ok /\ pv.ok
        THEN LET more == ParseMoreValues(s, pv.pos, << pv.tok >>)
             IN  [ok |-> TRUE, pos |-> more.pos, tok |-> << pn.tok >> \o more.tok]
        ELSE IF pn.ok THEN [ok |-> TRUE, pos |-> pn.pos, tok |-> << pn.tok >>]
        ELSE Failed

\* paramBNF at position i: the group (pname, value, value, ...)
ParseParam(s, i) ==
    LET pn   == ParseWord(s, i)
        eqs  == ParseLiteral(s, pn.pos, "=")
        pv   == ParseParamValue(s, eqs.pos)
    IN  IF pn.ok /\ eqs.ok /\ pv.ok
        THEN LET more == ParseMoreValues(s, pv.pos, << pv.tok >>)
             IN  [ok |-> TRUE, pos |-> more.pos, tok |-> << pn.tok >> \o more.tok]
        ELSE Failed

RECURSIVE ParseParams(_, _, _)
\* paramsBNF at position i: ZeroOrMore(";" paramBNF)
ParseParams(s, i, acc) ==
    LET semi == ParseLiteral(s, i, ";")
        p    == ParseParam(s, semi.pos)
    IN  IF semi.ok /\ p.ok
        THEN ParseParams(s, p.pos, Append(acc, p.tok))
        ELSE [ok |-> TRUE, pos |-> i, tok |-> acc]

\* valueBNF == pp.SkipTo(pp.StringEnd(), include=True) at position i
ParseValue(s, i) ==
    LET j == SkipWhitespace(s, i)
    IN  [ok |-> TRUE, pos |-> Len(s) + 1, tok |-> SubSeq(s, j, Len(s))]

(***************************************************************************)
(* ContentLine.  A record is [kind, name, params, value]; params models    *)
(* the OrderedDict as a sequence of [k, v] entries with distinct keys, v   *)
(* the list of the parameter's values.                                     *)
(***************************************************************************)
NoResult == [kind |-> "none"]

\* ParseError("No ':' in line '{}'".format(line)) and ParseError("Unable to parse %s" % line)
ParseError(what, text) == [kind |-> "error", type |-> "ParseError", what |-> what, line |-> text]

\* ContentLine.__init__
ContentLine(name, params, value) ==
    [kind |-> "line", name |-> Upper(name), params |-> params, value |-> value]

HasKey(d, k) == \E i \in 1..Len(d) : d[i].k = k

\* d[k] = v on an OrderedDict: a new key goes last, a known key keeps its place
DictSet(d, k, v) ==
    IF HasKey(d, k)
    THEN [i \in 1..Len(d) |-> IF d[i].k = k THEN [k |-> k, v |-> v] ELSE d[i]]
    ELSE Append(d, [k |-> k, v |-> v])

RECURSIVE OrderedDict(_)
\* collections.OrderedDict(pairs)
OrderedDict(pairs) ==
    IF Len(pairs) = 0 THEN << >>
    ELSE LET n == Len(pairs)
         IN  DictSet(OrderedDict(SubSeq(pairs, 1, n - 1)), pairs[n].k, pairs[n].v)

\* an equality that compares the parameters in order
ContentLine_eq_ordered(self, o) ==
    /\ self.name = o.name
    /\ self.params = o.params
    /\ self.value = o.value

\* ContentLine.__eq__ with `self.params == dict(other.params)`: an OrderedDict
\* against a plain dict compares as a mapping, whatever the order of the keys
ContentLine_eq(self, o) ==
    /\ self.name = o.name
    /\ { self.params[i] : i \in 1..Len(self.params) } = { o.params[i] : i \in 1..Len(o.params) }
    /\ self.value = o.value

RECURSIVE Join(_, _)
\* sep.join(strs)
Join(strs, sep) ==
    IF Len(strs) = 0 THEN << >>
    ELSE IF Len(strs) = 1 THEN strs[1]
    ELSE strs[1] \o sep \o Join(Tail(strs), sep)

RECURSIVE ParamsStrSemicolons(_)
\* the rendering of the parameters with the values joined by ';'
ParamsStrSemicolons(params) ==
    IF Len(params) = 0 THEN << >>
    ELSE << ";" >> \o params[1].k \o << "=" >> \o Join(params[1].v, << ";" >>)
         \o ParamsStrSemicolons(Tail(params))

RECURSIVE ParamsStr(_)
\* the loop of ContentLine.__str__: ';{}={}'.format(pname, ','.join(pvalue))
ParamsStr(params) ==
    IF Len(params) = 0 THEN << >>
    ELSE << ";" >> \o params[1].k \o << "=" >> \o Join(params[1].v, << "," >>)
         \o ParamsStr(Tail(params))

\* ContentLine.__str__
ContentLine_str(r) == r.name \o ParamsStr(r.params) \o << ":" >> \o r.value

\* params = [(t[0], t[1:]) for t in params]
GroupPairs(groups) ==
    [i \in 1..Len(groups) |-> [k |-> groups[i][1], v |-> Tail(groups[i])]]

\* ContentLine.parse
ContentLine_parse(text) ==
    IF \A i \in 1..Len(text) : text[i] # ":"
    THEN ParseError("no colon", text)
    ELSE LET s     == ExpandTabs(text)
             nm    == ParseWord(s, 1)
             ps    == IF nm.ok THEN ParseParams(s, nm.pos, << >>)
                      ELSE [ok |-> TRUE, pos |-> 1, tok |-> << >>]
             colon == ParseLiteral(s, ps.pos, ":")
             val   == ParseValue(s, colon.pos)
         IN  IF ~colon.ok THEN ParseError("unable to parse", text)
             ELSE IF nm.ok
                  THEN ContentLine(nm.tok, OrderedDict(GroupPairs(ps.tok)),
                                   RStripChars(val.tok, Whitespace))
                  ELSE ContentLine(<< >>, << >>, RStripChars(val.tok, Whitespace))

(***************************************************************************)
(* SpecParse: ContentLine.parse applied to one line.                       *)
(***************************************************************************)

\* the fragments a line of the model is put together from
Pieces ==
    { << "a" >>, << ":" >>, << ";" >>, << "=" >>, << "," >>, << "\"" >>,
      << " " >>, << "\t" >>, << "\\" >>,
      << ";", "p", "=" >>, << "\"", ":", "\"" >> }

SeqsUpTo(S, n) == UNION { [1..m -> S] : m \in 0..n }

RECURSIVE Concat(_)
Concat(ss) == IF Len(ss) = 0 THEN << >> ELSE ss[1] \o Concat(Tail(ss))

InitParse ==
    /\ pc = "parse"
    /\ \E ps \in SeqsUpTo(Pieces, MaxPieces) :
          line = Concat(ps)
    /\ parsed = NoResult
    /\ rec = NoResult /\ other = NoResult /\ eq = FALSE
    /\ container = NoResult /\ txt = << >>
    /\ physical_lines = << >> /\ unfolded = << >> /\ reunfolded = << >>
    /\ tokenized_lines = << >> /\ tree = NoResult

\* ContentLine.parse(line)
ParseLine ==
    /\ pc = "parse"
    /\ parsed' = ContentLine_parse(line)
    /\ pc' = "parsed"
    /\ UNCHANGED << rec, other, eq, line, container, txt, physical_lines,
                    unfolded, reunfolded, tokenized_lines, tree >>

NextParse == ParseLine

SpecParse == InitParse /\ [][NextParse]_vars

(***************************************************************************)
(* Properties of ContentLine.parse.                                        *)
(***************************************************************************)
RECURSIVE OutsideQuotes(_, _, _)
\* the positions of s, from i on, that lie outside every quoted string
OutsideQuotes(s, i, quoted) ==
    IF i > Len(s) THEN { }
    ELSE IF quoted
         THEN IF s[i] = "\\" THEN OutsideQuotes(s, i + 2, TRUE)
              ELSE OutsideQuotes(s, i + 1, s[i] # "\"")
         ELSE IF s[i] = "\"" THEN OutsideQuotes(s, i + 1, TRUE)
              ELSE { i } \cup OutsideQuotes(s, i + 1, FALSE)

NoColon(s) == \A i \in 1..Len(s) : s[i] # ":"

\* the colons of s that are not inside a quoted string
TopColons(s) == { i \in OutsideQuotes(s, 1, FALSE) : s[i] = ":" }

FirstTopColon(s) == CHOOSE i \in TopColons(s) : \A j \in TopColons(s) : i <= j

\* before the first colon outside quotes, a ';' outside quotes is followed by the
\* next ';' or ':' outside quotes with no '=' in between
BadParameter(s) ==
    \E i, e \in OutsideQuotes(s, 1, FALSE) :
        /\ i < e
        /\ s[i] = ";"
        /\ s[e] \in { ";", ":" }
        /\ \A c \in TopColons(s) : e <= c
        /\ \A m \in (i + 1)..(e - 1) : s[m] # "="

\* C7: ContentLine.parse raises ParseError, carrying the line, for every line with
\* no colon and for every line in which a parameter after ';' has no '=' before
\* the colon; it returns no record for them.
C7_MalformedRejected ==
    pc = "parsed" /\ (NoColon(line) \/ BadParameter(line))
        => /\ parsed.kind = "error"
           /\ parsed.type = "ParseError"
           /\ parsed.line = line

C7_Witness ==
    /\ pc = "parsed"
    /\ ~NoColon(line)
    /\ BadParameter(line)
    /\ parsed.kind = "error"
    /\ parsed.line = line

\* C8: for every accepted line the value is exactly everything after the first
\* colon that is not inside a quoted parameter value, with only trailing
\* space/tab/CR/LF removed, and a line whose first character is that colon has
\* name "" and no parameters.
C8_ValueVerbatim ==
    pc = "parsed" /\ parsed.kind = "line"
        => /\ TopColons(line) # { }
           /\ LET c == FirstTopColon(line)
              IN  /\ parsed.value = RStripChars(SubSeq(line, c + 1, Len(line)), Whitespace)
                  /\ c = 1 => parsed.name = << >> /\ parsed.params = << >>

(***************************************************************************)
(* SpecRoundTrip: a record is rendered and the line parsed back.           *)
(* SpecEq: two records are compared.                                       *)
(***************************************************************************)
QuotedColon == << "\"", "v", ":", "w", "\"" >>

\* the value lists a parameter of the model may carry
ValueLists ==
    { << >>, << << >> >>, << << "v" >> >>, << << "v" >>, << "w" >> >>,
      << << "v", ";" >> >>, << QuotedColon >> }

ParamNames == { << >>, << "p" >>, << "q" >> }

Entries == { [k |-> k, v |-> v] : k \in ParamNames, v \in ValueLists }

DistinctKeys(d) == \A i, j \in 1..Len(d) : i # j => d[i].k # d[j].k

\* the OrderedDicts over a set of entries
Dicts(entries) == { d \in SeqsUpTo(entries, MaxParams) : DistinctKeys(d) }

Names == { << >>, << "n" >>, << " ", "N" >> }

Values == { << >>, << "x" >>, << "x", ":", ";", "=" >>, << " ", "x" >> }

Records == { ContentLine(n, d, v) : n \in Names, d \in Dicts(Entries), v \in Values }

InitRoundTrip ==
    /\ pc = "render"
    /\ rec \in Records
    /\ line = << >> /\ parsed = NoResult
    /\ other = NoResult /\ eq = FALSE
    /\ container = NoResult /\ txt = << >>
    /\ physical_lines = << >> /\ unfolded = << >> /\ reunfolded = << >>
    /\ tokenized_lines = << >> /\ tree = NoResult

\* str(rec)
Render ==
    /\ pc = "render"
    /\ line' = ContentLine_str(rec)
    /\ pc' = "reparse"
    /\ UNCHANGED << rec, other, eq, parsed, container, txt, physical_lines,
                    unfolded, reunfolded, tokenized_lines, tree >>

\* ContentLine.parse(str(rec))
Reparse ==
    /\ pc = "reparse"
    /\ parsed' = ContentLine_parse(line)
    /\ pc' = "reparsed"
    /\ UNCHANGED << rec, other, eq, line, container, txt, physical_lines,
                    unfolded, reunfolded, tokenized_lines, tree >>

NextRoundTrip == Render \/ Reparse

SpecRoundTrip == InitRoundTrip /\ [][NextRoundTrip]_vars

\* the records SpecEq compares
EqEntries ==
    { [k |-> << "p" >>, v |-> << << "v" >> >>],
      [k |-> << "p" >>, v |-> << << "w" >> >>],
      [k |-> << "p" >>, v |-> << << "v" >>, << "w" >> >>],
      [k |-> << "p" >>, v |-> << << "w" >>, << "v" >> >>],
      [k |-> << "q" >>, v |-> << << "v" >> >>],
      [k |-> << "r" >>, v |-> << << "v" >> >>] }

EqRecords ==
    { ContentLine(n, d, v) : n \in { << "a" >>, << "b" >> }, d \in Dicts(EqEntries),
                             v \in { << >>, << "x" >> } }

InitEq ==
    /\ pc = "compare"
    /\ rec \in EqRecords
    /\ other \in EqRecords
    /\ eq = FALSE
    /\ line = << >> /\ parsed = NoResult
    /\ container = NoResult /\ txt = << >>
    /\ physical_lines = << >> /\ unfolded = << >> /\ reunfolded = << >>
    /\ tokenized_lines = << >> /\ tree = NoResult

\* rec == other
Compare ==
    /\ pc = "compare"
    /\ eq' = ContentLine_eq(rec, other)
    /\ pc' = "compared"
    /\ UNCHANGED << rec, other, line, parsed, container, txt, physical_lines,
                    unfolded, reunfolded, tokenized_lines, tree >>

NextEq == Compare

SpecEq == InitEq /\ [][NextEq]_vars

(***************************************************************************)
(* Properties of rendering, the round trip and equality.                   *)
(***************************************************************************)
\* a run of word characters that the grammar neither skips nor splits
SafeWord(s) == \A i \in 1..Len(s) : s[i] \in WordChars \ Whitespace

\* a quoted string, closed by its last character, with no whitespace in it
SafeQuoted(s) ==
    /\ Len(s) >= 2
    /\ s[1] = "\""
    /\ QuotedEnd(s, 2) = Len(s)
    /\ \A i \in 1..Len(s) : s[i] \in Printables

\* no name, parameter name, parameter value or value of r holds a character that
\* conflicts with the line grammar
GrammarSafe(r) ==
    /\ SafeWord(r.name)
    /\ \A i \in 1..Len(r.params) :
          /\ SafeWord(r.params[i].k)
          /\ \A j \in 1..Len(r.params[i].v) :
                SafeWord(r.params[i].v[j]) \/ SafeQuoted(r.params[i].v[j])
    /\ \A i \in 1..Len(r.value) : r.value[i] \in Printables

\* r has a name when it has parameters, and every parameter has a name and at
\* least one value, none of them empty
Renderable(r) ==
    /\ Len(r.params) > 0 => r.name # << >>
    /\ \A i \in 1..Len(r.params) :
          /\ r.params[i].k # << >>
          /\ r.params[i].v # << >>
          /\ \A j \in 1..Len(r.params[i].v) : r.params[i].v[j] # << >>

\* C4 as stated: every record with no grammar-conflicting character is equal to
\* the record parsed back from its rendering.
C4_RoundTripAnyRecord ==
    pc = "reparsed" /\ GrammarSafe(rec)
        => parsed.kind = "line" /\ ContentLine_eq(parsed, rec)

\* C4 amended: every record with no grammar-conflicting character, with a name
\* when it has parameters and with no empty parameter name, value list or
\* parameter value, is equal to the record parsed back from its rendering.
C4_RoundTrip ==
    pc = "reparsed" /\ GrammarSafe(rec) /\ Renderable(rec)
        => parsed.kind = "line" /\ ContentLine_eq(parsed, rec)

C4_Witness ==
    /\ pc = "reparsed"
    /\ GrammarSafe(rec) /\ Renderable(rec)
    /\ Len(rec.params) = 2
    /\ \E i \in 1..2 : Len(rec.params[i].v) = 2
    /\ rec.value # << >>
    /\ parsed.kind = "line"
    /\ ContentLine_eq(parsed, rec)

Keys(d) == { d[i].k : i \in 1..Len(d) }

Lookup(d, k) == d[CHOOSE i \in 1..Len(d) : d[i].k = k].v

\* C6 as stated: two records are equal iff names, values and the parameters as
\* ordered sequences of (key, value-list) pairs are equal.
C6_EqualityOrdered ==
    pc = "compared"
        => (eq <=> /\ rec.name = other.name
                   /\ rec.value = other.value
                   /\ rec.params = other.params)

\* C6 amended: two records are equal iff names and values are equal and the
\* parameters are equal as mappings: the same keys, each with the same value
\* list, in whatever order the keys were inserted.
C6_EqualityAsMapping ==
    pc = "compared"
        => (eq <=> /\ rec.name = other.name
                   /\ rec.value = other.value
                   /\ Keys(rec.params) = Keys(other.params)
                   /\ \A k \in Keys(rec.params) :
                         Lookup(rec.params, k) = Lookup(other.params, k))

C6_Witness ==
    /\ pc = "compared"
    /\ eq
    /\ Len(rec.params) = 2
    /\ rec.params # other.params

(***************************************************************************)
(* unfold_lines.                                                           *)
(***************************************************************************)
\* the characters str.strip() removes, among those the model writes
StripWhitespace == { " ", "\t", "\n", "\r", "\f" }

\* len(line.strip()) == 0
IsBlank(l) == \A i \in 1..Len(l) : l[i] \in StripWhitespace

CR == { "\r" }

\* an iteration that takes a leading tab for a continuation as well
UnfoldStepTab(st, l) ==
    IF IsBlank(l) THEN st
    ELSE IF st.current_line = << >>
         THEN [st EXCEPT !.current_line = StripChars(l, CR)]
    ELSE IF l[1] \in { " ", "\t" }
         THEN [st EXCEPT !.current_line = st.current_line \o StripChars(Tail(l), CR)]
    ELSE [current_line |-> StripChars(l, CR), yielded |-> Append(st.yielded, st.current_line)]

\* one iteration of the for loop over [current_line, the lines yielded so far]
UnfoldStep(st, l) ==
    IF IsBlank(l) THEN st
    ELSE IF st.current_line = << >>
         THEN [st EXCEPT !.current_line = StripChars(l, CR)]
    ELSE IF l[1] = " "
         THEN [st EXCEPT !.current_line = st.current_line \o StripChars(Tail(l), CR)]
    ELSE [current_line |-> StripChars(l, CR), yielded |-> Append(st.yielded, st.current_line)]

RECURSIVE UnfoldLoop(_, _)
UnfoldLoop(st, ls) ==
    IF Len(ls) = 0 THEN st ELSE UnfoldLoop(UnfoldStep(st, ls[1]), Tail(ls))

\* an unfolding that never yields the line left in current_line at the end
unfold_lines_no_last(ls) ==
    UnfoldLoop([current_line |-> << >>, yielded |-> << >>], ls).yielded

\* unfold_lines(physical_lines), as the list of the lines it yields
unfold_lines(ls) ==
    LET st == UnfoldLoop([current_line |-> << >>, yielded |-> << >>], ls)
    IN  IF st.current_line # << >> THEN Append(st.yielded, st.current_line)
        ELSE st.yielded

\* the physical lines of the model
PhysicalLines ==
    { << >>, << " " >>, << "a" >>, << " ", "b" >>, << " ", " ", "b" >>,
      << "\t", "b" >>, << "b", "\r" >>, << "\r", "a" >>, << "\r", " ", "b" >>,
      << " ", "\r", "b" >> }

InitUnfold ==
    /\ pc = "unfold"
    /\ physical_lines \in SeqsUpTo(PhysicalLines, MaxLines)
    /\ unfolded = << >> /\ reunfolded = << >>
    /\ rec = NoResult /\ other = NoResult /\ eq = FALSE
    /\ line = << >> /\ parsed = NoResult
    /\ container = NoResult /\ txt = << >>
    /\ tokenized_lines = << >> /\ tree = NoResult

\* list(unfold_lines(physical_lines))
Unfold ==
    /\ pc = "unfold"
    /\ unfolded' = unfold_lines(physical_lines)
    /\ pc' = "unfolded"
    /\ UNCHANGED << rec, other, eq, line, parsed, container, txt, physical_lines,
                    reunfolded, tokenized_lines, tree >>

\* list(unfold_lines(unfolded)): the output unfolded once more
Reunfold ==
    /\ pc = "unfolded"
    /\ reunfolded' = unfold_lines(unfolded)
    /\ pc' = "reunfolded"
    /\ UNCHANGED << rec, other, eq, line, parsed, container, txt, physical_lines,
                    unfolded, tokenized_lines, tree >>

NextUnfold == Unfold \/ Reunfold

SpecUnfold == InitUnfold /\ [][NextUnfold]_vars

(***************************************************************************)
(* Properties of unfold_lines.                                             *)
(***************************************************************************)
\* the lines of ls that are not blank, in order
NonBlank(ls) == SelectSeq(ls, LAMBDA l : ~IsBlank(l))

\* no non-blank line starts with a space
NoContinuation(ls) == \A i \in 1..Len(ls) : IsBlank(ls[i]) \/ ls[i][1] # " "

NoLeadingCR(ls) == \A i \in 1..Len(ls) : Len(ls[i]) = 0 \/ ls[i][1] # "\r"

\* C9 as stated: without continuation lines unfold emits exactly the non-blank
\* lines, in order and each unchanged; and unfolding the output again changes
\* nothing, for every input.
C9_UnchangedAndIdempotent ==
    /\ pc \in { "unfolded", "reunfolded" } /\ NoContinuation(physical_lines)
          => unfolded = NonBlank(physical_lines)
    /\ pc = "reunfolded" => reunfolded = unfolded

\* C9 amended: without continuation lines unfold emits exactly the non-blank
\* lines, in order, each less the CRs at its two ends; and unfolding the output
\* again changes nothing when no input line starts with a CR.
C9_StrippedAndIdempotent ==
    /\ pc \in { "unfolded", "reunfolded" } /\ NoContinuation(physical_lines)
          => LET nb == NonBlank(physical_lines)
             IN  unfolded = [i \in 1..Len(nb) |-> LStripChars(RStripChars(nb[i], CR), CR)]
    /\ pc = "reunfolded" /\ NoLeadingCR(physical_lines) => reunfolded = unfolded

C9_Witness ==
    /\ pc = "reunfolded"
    /\ NoContinuation(physical_lines)
    /\ NoLeadingCR(physical_lines)
    /\ \E i \in 1..Len(physical_lines) : IsBlank(physical_lines[i])
    /\ \E i \in 1..Len(physical_lines) :
          Len(physical_lines[i]) > 0 /\ physical_lines[i][Len(physical_lines[i])] = "\r"
    /\ Len(unfolded) = 2
    /\ reunfolded = unfolded

\* the non-blank lines that start a logical line: the first, and every one that
\* does not start with a space
Heads(nb) == { i \in 1..Len(nb) : i = 1 \/ nb[i][1] # " " }

\* the last line of the run that starts at h
RunEnd(nb, h) ==
    CHOOSE e \in h..Len(nb) :
        /\ \A i \in (h + 1)..e : i \notin Heads(nb)
        /\ e = Len(nb) \/ (e + 1) \in Heads(nb)

\* a piece less its trailing CRs, and with `both` less its leading CRs too
Piece(l, both) == IF both THEN LStripChars(RStripChars(l, CR), CR) ELSE RStripChars(l, CR)

\* the run h..e as one line: the first line, then each continuation line less
\* its one leading space
RunLine(nb, h, e, both) ==
    Concat([i \in 1..(e - h + 1) |->
               IF i = 1 THEN Piece(nb[h], both) ELSE Piece(Tail(nb[h + i - 1]), both)])

RECURSIVE RunLines(_, _, _)
RunLines(nb, h, both) ==
    IF h > Len(nb) THEN << >>
    ELSE LET e == RunEnd(nb, h)
         IN  << RunLine(nb, h, e, both) >> \o RunLines(nb, e + 1, both)

\* C10 as stated: unfold emits one logical line per maximal run of a non-blank
\* line and the non-blank lines after it that start with a space: the first line,
\* then each continuation line with exactly one leading space removed, trailing CR
\* removed from every piece; blank lines are dropped and end no run, and a leading
\* tab continues nothing.
C10_RunsTrailingCR ==
    pc = "unfolded" => unfolded = RunLines(NonBlank(physical_lines), 1, FALSE)

\* C10 amended: the same, with the CRs at both ends of every piece removed.
C10_RunsBothEndsCR ==
    pc = "unfolded" => unfolded = RunLines(NonBlank(physical_lines), 1, TRUE)

C10_Witness ==
    /\ pc = "unfolded"
    /\ Len(physical_lines) = 3
    /\ ~IsBlank(physical_lines[1])
    /\ IsBlank(physical_lines[2])
    /\ physical_lines[3] = << " ", "\r", "b" >>
    /\ Len(unfolded) = 1
    /\ unfolded[1] = LStripChars(RStripChars(physical_lines[1], CR), CR) \o << "b" >>

(***************************************************************************)
(* Container, Container.parse and parse.  A container is [kind, name,      *)
(* items]; the shared generator is the sequence toks read from position i  *)
(* on.  A token is a record, or the ParseError that tokenize_line raises   *)
(* when the line is pulled.                                                *)
(***************************************************************************)
BEGIN == << "B", "E", "G", "I", "N" >>

END == << "E", "N", "D" >>

CRLF == << "\r", "\n" >>

\* Container.__init__
Container(name, items) == [kind |-> "container", name |-> name, items |-> items]

\* ParseError("Expected END:{}, got END:{}".format(name, line.value))
EndMismatch(name, value) ==
    [kind |-> "error", type |-> "ParseError", what |-> "end mismatch",
     expected |-> name, actual |-> value]

\* an END branch that closes the container whatever name the END carries
CloseContainerUnchecked(name, t, items, i) ==
    [kind |-> "ok", node |-> Container(name, items), next |-> i + 1]

\* an END branch that keeps the END record as a child
CloseContainerKeepEnd(name, t, items, i) ==
    IF t.value # name THEN [kind |-> "raise", error |-> EndMismatch(name, t.value)]
    ELSE [kind |-> "ok", node |-> Container(name, Append(items, t)), next |-> i + 1]

\* the END branch of Container.parse, on the record t read at position i
CloseContainer(name, t, items, i) ==
    IF t.value # name THEN [kind |-> "raise", error |-> EndMismatch(name, t.value)]
    ELSE [kind |-> "ok", node |-> Container(name, items), next |-> i + 1]

RECURSIVE Container_parse(_, _, _, _)
\* Container.parse(name, tokenized_lines) with the generator at position i and
\* `items` collected so far; an exhausted generator just ends the for loop
Container_parse(name, toks, i, items) ==
    IF i > Len(toks)
    THEN [kind |-> "ok", node |-> Container(name, items), next |-> i]
    ELSE LET t == toks[i]
         IN  IF t.kind = "error" THEN [kind |-> "raise", error |-> t]
             ELSE IF t.name = BEGIN
                  THEN LET sub == Container_parse(t.value, toks, i + 1, << >>)
                       IN  IF sub.kind = "raise" THEN sub
                           ELSE Container_parse(name, toks, sub.next, Append(items, sub.node))
             ELSE IF t.name = END THEN CloseContainer(name, t, items, i)
             ELSE Container_parse(name, toks, i + 1, Append(items, t))

RECURSIVE ParseLoop(_, _, _)
\* the for loop of parse(tokenized_lines) with the generator at position i
ParseLoop(toks, i, res) ==
    IF i > Len(toks) THEN [kind |-> "tree", nodes |-> res]
    ELSE LET t == toks[i]
         IN  IF t.kind = "error" THEN t
             ELSE IF t.name = BEGIN
                  THEN LET sub == Container_parse(t.value, toks, i + 1, << >>)
                       IN  IF sub.kind = "raise" THEN sub.error
                           ELSE ParseLoop(toks, sub.next, Append(res, sub.node))
             ELSE ParseLoop(toks, i + 1, Append(res, t))

\* parse(tokenized_lines): the list of top-level nodes, or the error raised
parse(toks) == ParseLoop(toks, 1, << >>)

RECURSIVE NodeStr(_)

\* a rendering of a container that leaves the END line out
Container_str_no_end(c) ==
    Join(<< BEGIN \o << ":" >> \o c.name >>
         \o [i \in 1..Len(c.items) |-> NodeStr(c.items[i])], CRLF)

\* Container.__str__
Container_str(c) ==
    Join(<< BEGIN \o << ":" >> \o c.name >>
         \o [i \in 1..Len(c.items) |-> NodeStr(c.items[i])]
         \o << END \o << ":" >> \o c.name >>, CRLF)

\* str(line) for one child of a container
NodeStr(n) == IF n.kind = "container" THEN Container_str(n) ELSE ContentLine_str(n)

\* the line boundaries of str.splitlines(), among the characters the model writes
LineBreaks == { "\n", "\r", "\f" }

\* position t holds the last character of a line boundary: a boundary character
\* other than the "\r" of a "\r\n"
EndsBoundary(s, t) ==
    /\ s[t] \in LineBreaks
    /\ ~(s[t] = "\r" /\ t + 1 <= Len(s) /\ s[t + 1] = "\n")

RECURSIVE SplitFrom(_, _)
\* the lines of s from position b on
SplitFrom(s, b) ==
    IF b > Len(s) THEN << >>
    ELSE LET ends == { t \in b..Len(s) : EndsBoundary(s, t) }
         IN  IF ends = { } THEN << SubSeq(s, b, Len(s)) >>
             ELSE LET t == CHOOSE x \in ends : \A y \in ends : x <= y
                      e == IF s[t] = "\n" /\ t > b /\ s[t - 1] = "\r" THEN t - 2 ELSE t - 1
                  IN  << SubSeq(s, b, e) >> \o SplitFrom(s, t + 1)

\* txt.splitlines()
SplitLines(s) == SplitFrom(s, 1)

\* tokenize_line(unfolded_lines): each line's record, or the error raised for it
tokenize_line(ls) == [i \in 1..Len(ls) |-> ContentLine_parse(ls[i])]

(***************************************************************************)
(* SpecBuild: parse applied to a stream of records.                        *)
(* SpecPipeline: a container is rendered and the text run through          *)
(* string_to_container.                                                    *)
(***************************************************************************)
NameA == << "A" >>

NameB == << "B" >>

\* the records of the streams of SpecBuild
StreamRecords ==
    { ContentLine(BEGIN, << >>, NameA), ContentLine(BEGIN, << >>, NameB),
      ContentLine(END, << >>, NameA), ContentLine(END, << >>, NameB),
      ContentLine(<< "x" >>, << >>, << "1" >>) }

InitBuild ==
    /\ pc = "build"
    /\ tokenized_lines \in SeqsUpTo(StreamRecords, MaxRecords)
    /\ tree = NoResult
    /\ rec = NoResult /\ other = NoResult /\ eq = FALSE
    /\ line = << >> /\ parsed = NoResult
    /\ container = NoResult /\ txt = << >>
    /\ physical_lines = << >> /\ unfolded = << >> /\ reunfolded = << >>

\* parse(tokenized_lines)
Build ==
    /\ pc = "build"
    /\ tree' = parse(tokenized_lines)
    /\ pc' = "built"
    /\ UNCHANGED << rec, other, eq, line, parsed, container, txt, physical_lines,
                    unfolded, reunfolded, tokenized_lines >>

NextBuild == Build

SpecBuild == InitBuild /\ [][NextBuild]_vars

\* the leaves of the containers of SpecPipeline
LeafX == ContentLine(<< "x" >>, << [k |-> << "p" >>, v |-> << << "v" >>, << "w" >> >>] >>, << "1" >>)

LeafEnd == ContentLine(END, << >>, NameB)

LeafNoName == ContentLine(<< >>, << [k |-> << "p" >>, v |-> << << "v" >> >>] >>, << "1" >>)

LeafPlain == ContentLine(<< >>, << >>, << "y", ":", "z" >>)

Before == { << >>, << LeafX >>, << LeafEnd >>, << LeafNoName >> }

After == { << >>, << Container(NameB, << >>), LeafPlain >> }

ContainerNames == { NameA, << "b", " " >> }

RECURSIVE Containers(_)
\* the containers nested exactly d deep
Containers(d) ==
    IF d = 0 THEN { Container(n, b) : n \in ContainerNames, b \in Before }
    ELSE { Container(n, b \o << c >> \o a) :
               n \in ContainerNames, b \in Before, c \in Containers(d - 1), a \in After }

InitPipeline ==
    /\ pc = "str"
    /\ container \in UNION { Containers(d) : d \in 0..MaxDepth }
    /\ txt = << >>
    /\ physical_lines = << >> /\ unfolded = << >> /\ reunfolded = << >>
    /\ tokenized_lines = << >> /\ tree = NoResult
    /\ rec = NoResult /\ other = NoResult /\ eq = FALSE
    /\ line = << >> /\ parsed = NoResult

\* str(container)
RenderContainer ==
    /\ pc = "str"
    /\ txt' = Container_str(container)
    /\ pc' = "splitlines"
    /\ UNCHANGED << rec, other, eq, line, parsed, container, physical_lines,
                    unfolded, reunfolded, tokenized_lines, tree >>

\* string_to_container: txt.splitlines()
SplitText ==
    /\ pc = "splitlines"
    /\ physical_lines' = SplitLines(txt)
    /\ pc' = "unfold_lines"
    /\ UNCHANGED << rec, other, eq, line, parsed, container, txt,
                    unfolded, reunfolded, tokenized_lines, tree >>

\* lines_to_container: unfold_lines(lines)
UnfoldText ==
    /\ pc = "unfold_lines"
    /\ unfolded' = unfold_lines(physical_lines)
    /\ pc' = "tokenize_line"
    /\ UNCHANGED << rec, other, eq, line, parsed, container, txt, physical_lines,
                    reunfolded, tokenized_lines, tree >>

\* lines_to_container: tokenize_line(...), then parse(...) by the action Build
TokenizeText ==
    /\ pc = "tokenize_line"
    /\ tokenized_lines' = tokenize_line(unfolded)
    /\ pc' = "build"
    /\ UNCHANGED << rec, other, eq, line, parsed, container, txt, physical_lines,
                    unfolded, reunfolded, tree >>

NextPipeline == RenderContainer \/ SplitText \/ UnfoldText \/ TokenizeText \/ Build

SpecPipeline == InitPipeline /\ [][NextPipeline]_vars

(***************************************************************************)
(* Properties of Container.parse and parse.                                *)
(***************************************************************************)
Last(q) == q[Len(q)]

RECURSIVE Scan(_, _)
\* what the first n records of a stream open and close: the names of the
\* containers left open (innermost last), whether an END met no open container,
\* and the first END whose value differs from the innermost open name
Scan(toks, n) ==
    IF n = 0
    THEN [open |-> << >>, stray |-> FALSE, failed |-> FALSE,
          expected |-> << >>, actual |-> << >>]
    ELSE LET st == Scan(toks, n - 1)
             t  == toks[n]
         IN  IF st.failed THEN st
             ELSE IF t.name = BEGIN THEN [st EXCEPT !.open = Append(st.open, t.value)]
             ELSE IF t.name = END
                  THEN IF st.open = << >> THEN [st EXCEPT !.stray = TRUE]
                       ELSE IF Last(st.open) = t.value
                            THEN [st EXCEPT !.open = SubSeq(st.open, 1, Len(st.open) - 1)]
                       ELSE [st EXCEPT !.failed = TRUE, !.expected = Last(st.open),
                                       !.actual = t.value]
             ELSE st

ScanAll(toks) == Scan(toks, Len(toks))

\* C1: when an END record is reached inside an open container whose name differs
\* from the END's value, parsing fails with an error that reports the expected
\* name (the open container's) and the actual name (the END's value), and
\* returns no tree.
C1_MismatchRaises ==
    pc = "built" /\ ScanAll(tokenized_lines).failed
        => /\ tree.kind = "error"
           /\ tree.type = "ParseError"
           /\ tree.expected = ScanAll(tokenized_lines).expected
           /\ tree.actual = ScanAll(tokenized_lines).actual

C1_Witness ==
    /\ pc = "built"
    /\ Len(tokenized_lines) >= 4
    /\ ScanAll(tokenized_lines).failed
    /\ ~Scan(tokenized_lines, 3).failed
    /\ Len(Scan(tokenized_lines, 3).open) = 1
    /\ tree.kind = "error"
    /\ tree.expected = NameA /\ tree.actual = NameB

\* C2: when the stream is exhausted while a container opened by a BEGIN has not
\* seen its END, parsing fails with an error and returns no tree holding the
\* truncated container.
C2_UnterminatedRaises ==
    pc = "built" /\ ~ScanAll(tokenized_lines).failed /\ ScanAll(tokenized_lines).open # << >>
        => tree.kind = "error"

\* every BEGIN is closed by an END of the same value, strictly nested, and no END
\* stands outside every container
Balanced(toks) ==
    /\ ~ScanAll(toks).failed
    /\ ScanAll(toks).open = << >>
    /\ ~ScanAll(toks).stray

RECURSIVE Flatten(_)
\* the records a sequence of nodes stands for: a container is its BEGIN record,
\* its children, and its END record
Flatten(nodes) ==
    IF Len(nodes) = 0 THEN << >>
    ELSE LET n == nodes[1]
         IN  (IF n.kind = "container"
              THEN << ContentLine(BEGIN, << >>, n.name) >> \o Flatten(n.items)
                   \o << ContentLine(END, << >>, n.name) >>
              ELSE << n >>) \o Flatten(Tail(nodes))

RECURSIVE NoMarkerChild(_)
\* no record named BEGIN or END is a child anywhere in the nodes
NoMarkerChild(nodes) ==
    \A i \in 1..Len(nodes) :
        IF nodes[i].kind = "container" THEN NoMarkerChild(nodes[i].items)
        ELSE nodes[i].name \notin { BEGIN, END }

\* C3: for a balanced stream the tree mirrors the nesting: read back in order,
\* with each container standing for its BEGIN, its children and its END, the tree
\* is the stream, and no BEGIN or END record is a child.
C3_TreeMirrorsNesting ==
    pc = "built" /\ Balanced(tokenized_lines)
        => /\ tree.kind = "tree"
           /\ NoMarkerChild(tree.nodes)
           /\ Flatten(tree.nodes) = tokenized_lines

C3_Witness ==
    /\ pc = "built"
    /\ Balanced(tokenized_lines)
    /\ tree.kind = "tree"
    /\ Len(tree.nodes) = 1
    /\ tree.nodes[1] = Container(NameA, << Container(NameB, << >>),
                                           ContentLine(<< "x" >>, << >>, << "1" >>) >>)

(***************************************************************************)
(* Properties of the rendering of a container and string_to_container.     *)
(***************************************************************************)
RECURSIVE LeavesOf(_)
\* the records in a node, at any depth
LeavesOf(n) ==
    IF n.kind = "container" THEN UNION { LeavesOf(n.items[i]) : i \in 1..Len(n.items) }
    ELSE { n }

RECURSIVE NamesOf(_)
\* the names of the containers in a node, at any depth
NamesOf(n) ==
    IF n.kind = "container"
    THEN { n.name } \cup UNION { NamesOf(n.items[i]) : i \in 1..Len(n.items) }
    ELSE { }

RECURSIVE NodeEq(_, _)
\* equality of two nodes: records by ContentLine.__eq__, containers by name and
\* children
NodeEq(a, b) ==
    IF a.kind # b.kind THEN FALSE
    ELSE IF a.kind = "container"
         THEN /\ a.name = b.name
              /\ Len(a.items) = Len(b.items)
              /\ \A i \in 1..Len(a.items) : NodeEq(a.items[i], b.items[i])
    ELSE ContentLine_eq(a, b)

ReparsedAsItself ==
    /\ tree.kind = "tree"
    /\ Len(tree.nodes) = 1
    /\ NodeEq(tree.nodes[1], container)

\* C5 as stated: every container whose records hold no grammar-conflicting
\* character is, rendered and run through string_to_container, the one top-level
\* node of the result.
C5_ContainerRoundTripAny ==
    pc = "built" /\ (\A l \in LeavesOf(container) : GrammarSafe(l))
        => ReparsedAsItself

\* the records of c are safe for the grammar, renderable and not named BEGIN or
\* END, and the names of the containers of c hold printable characters only
SafeContainer(c) ==
    /\ \A l \in LeavesOf(c) :
          GrammarSafe(l) /\ Renderable(l) /\ l.name \notin { BEGIN, END }
    /\ \A n \in NamesOf(c) : \A i \in 1..Len(n) : n[i] \in Printables

\* C5 amended: the same for the containers whose records moreover have a name
\* when they have parameters, no empty parameter name, value list or parameter
\* value, and a name other than BEGIN and END, and whose container names hold
\* printable characters only.
C5_ContainerRoundTrip ==
    pc = "built" /\ SafeContainer(container) => ReparsedAsItself

C5_Witness ==
    /\ pc = "built"
    /\ SafeContainer(container)
    /\ Len(container.items) = 4
    /\ container.items[1] = LeafX
    /\ Len(container.items[2].items) = 4
    /\ container.items[2].items[2].items = << LeafX >>
    /\ ReparsedAsItself

====
